---- MODULE Spec2Model ----
(***************************************************************************)
(* Model of the hedged volume-farming cycle engines of aster-farm-points:  *)
(*   src/src/utils/position_calculator.py  PositionCalculator              *)
(*   src/src/bots/base_trading_bot.py      BaseTradingBot                  *)
(*   src/src/bots/volume_trading_bot.py    VolumeTradingBot                *)
(*   src/src/bots/dual_account_bot.py      DualAccountBot                  *)
(*                                                                         *)
(* Numbers.  Python floats are modelled by exact rationals over integers:  *)
(* USDT amounts and prices are whole units, quantities are counted in      *)
(* 1/QtyScale of a contract, the liquidity multiplier in 1/LmScale.        *)
(* A quotient the code computes is kept as a (numerator, denominator)      *)
(* pair and compared by cross-multiplication.                              *)
(***************************************************************************)
EXTENDS Integers, Sequences, FiniteSets, TLC

VARIABLES
    mode,              \* "volume" (VolumeTradingBot) or "dual" (DualAccountBot)
    pc,                \* position of the single controlling flow
    cause,             \* why the run loop ended ("none" while running)
    report,            \* what the engine printed when it ended
    total_pnl,         \* self.total_pnl
    cycles_completed,  \* self.cycles_completed
    account_pnl,       \* <<self.account1_pnl, self.account2_pnl>> (dual)
    balance,           \* exchange: available USDT of each account
    balance_before,    \* balance sampled at the start of the cycle
    pos,               \* exchange: signed positionAmt per account and side
    quantity,          \* quantity sized for the current cycle
    first_long,        \* open_long_first / long_on_first of the current cycle
    info,              \* position1_info / position2_info (dual)
    margin,            \* position1_margin / position2_margin of monitor_positions
    hold_time,         \* close_time (volume) / hold_time (dual) drawn
    elapsed,           \* seconds since start_time of the monitor loop
    obs,               \* what the last monitoring poll observed
    close_result,      \* outcome of the last close_positions call
    log,               \* exchange calls and raises of the current cycle
    sz,                \* harness of calculate_position_size
    setup              \* setup_trading_environment of each bot and the exchange's
                       \* dual-side flag it works on

vars == <<mode, pc, cause, report, total_pnl, cycles_completed, account_pnl,
          balance, balance_before, pos, quantity, first_long, info,
          margin, hold_time, elapsed, obs, close_result, log, sz, setup>>

engine == <<mode, pc, cause, report, total_pnl, cycles_completed, account_pnl,
            balance, balance_before, pos, quantity, first_long, info,
            margin, hold_time, elapsed, obs, close_result, log, setup>>

non_setup == <<mode, pc, cause, report, total_pnl, cycles_completed, account_pnl,
               balance, balance_before, pos, quantity, first_long, info,
               margin, hold_time, elapsed, obs, close_result, log, sz>>

----------------------------------------------------------------------------
(* Bounds of the model *)

MaxCycles == 2          \* cycles a run may settle before the model stops it
MaxLatency == 1         \* extra whole seconds a poll may take on top of its sleep
SetupCalls == 2         \* calls of setup_trading_environment per bot in its harness

(* Units of the integer encoding (not bounds: they fix what 1 means) *)
QtyScale == 10 * 10 * 10    \* quantities are counted in 1/1000 contract
LmScale == 5 + 5            \* liquidity multiplier is counted in tenths

(* Configuration of the modelled run (RiskLimits and trading settings) *)

max_loss_usdt == 100
min_hold_time_sec == 1
max_hold_time_sec == 2
min_close_time_sec == 1
max_close_time_sec == 3
max_position_deviation_percent == 20
leverage == 20
balance_percentage == 50
liquidity_multiplier == 12     \* 1.2 in 1/LmScale

(* check_interval of the two monitor loops *)
volume_check_interval == 2
dual_check_interval == 1

Accounts == {1, 2}
Sides == {"LONG", "SHORT"}
SideOrder == <<"LONG", "SHORT">>     \* order of positionRisk rows
\* get_market_prices: the top of the order book and its middle
OrderBook == [best_bid |-> 99, best_ask |-> 101]
mid_price == (OrderBook.best_bid + OrderBook.best_ask) \div 2
EntryPrices == {0, mid_price}        \* avgPrice of an order response
\* available USDT of <<account 1, account 2>> when the run starts
StartBalances == [volume |-> {<<0, 0>>, <<200, 0>>},
                  dual |-> {<<500, 300>>, <<200, 200>>, <<0, 300>>}]
Deltas == {-50, 50}                  \* balance change realised by a close
UPnl == {-25, 0, 5}                  \* unRealizedProfit a poll may report
SymbolInfo == [tick_size |-> 1, step_size |-> 1, min_qty |-> 1, min_notional |-> 5]
Calculator == [liquidity_multiplier |-> liquidity_multiplier,
               balance_percentage |-> balance_percentage]

----------------------------------------------------------------------------
(* Arithmetic helpers *)

Abs(x) == IF x < 0 THEN -x ELSE x
Min(a, b) == IF a <= b THEN a ELSE b

RECURSIVE GCD(_, _)
GCD(a, b) == IF b = 0 THEN a ELSE GCD(b, a % b)

\* a rational n/d with d > 0, in lowest terms
Rat(n, d) == LET g == GCD(Abs(n), d) IN [n |-> n \div g, d |-> d \div g]
RatLeq(a, b) == a.n * b.d <= b.n * a.d
RatMax(a, b) == IF RatLeq(a, b) THEN b ELSE a
RatMin(a, b) == IF RatLeq(a, b) THEN a ELSE b

\* Python round(): nearest integer, ties to the even one; n >= 0, d > 0
PyRound(n, d) ==
    LET q == n \div d
        r == n % d
    IN  IF 2 * r < d THEN q
        ELSE IF 2 * r > d THEN q + 1
        ELSE IF q % 2 = 0 THEN q ELSE q + 1

----------------------------------------------------------------------------
(* PositionCalculator.calculate_position_size; the result is in 1/QtyScale *)

\* variant: the budget is never split between two legs
max_quantity_undivided(calc, price, available_balance, lev, single_position) ==
    Rat(available_balance * calc.balance_percentage * lev * QtyScale, 100 * price)

\* variant: two legs take a quarter of the budget each
max_quantity_quartered(calc, price, available_balance, lev, single_position) ==
    LET divider == IF single_position THEN 1 ELSE 4
    IN  Rat(available_balance * calc.balance_percentage * lev * QtyScale,
            100 * divider * price)

max_quantity(calc, price, available_balance, lev, single_position) ==
    LET divider == IF single_position THEN 1 ELSE 2
    IN  Rat(available_balance * calc.balance_percentage * lev * QtyScale,
            100 * divider * price)

min_required(calc, symbol_info, price) ==
    RatMax(Rat(symbol_info.min_notional * calc.liquidity_multiplier * QtyScale,
               LmScale * price),
           Rat(symbol_info.min_qty, 1))

\* variant: always moves to the next multiple above
round_to_next_step(q, step_size) == (q.n \div (q.d * step_size) + 1) * step_size

round_to_step(q, step_size) == PyRound(q.n, q.d * step_size) * step_size

calculate_position_size(calc, symbol_info, price, available_balance, lev, single_position) ==
    LET maxq == max_quantity(calc, price, available_balance, lev, single_position)
        q == RatMax(min_required(calc, symbol_info, price), RatMin(maxq, maxq))
    IN  round_to_step(q, symbol_info.step_size)

----------------------------------------------------------------------------
(* The exchange as the engine sees it *)

Max(a, b) == IF a >= b THEN a ELSE b
Used == IF mode = "volume" THEN {1} ELSE Accounts
NoPositions == [s \in Sides |-> 0]
NoInfo == [quantity |-> 0, entry_price |-> 0, side |-> "-"]
NoObs == [rp |-> [a \in Accounts |-> NoPositions], at |-> 0, stop |-> "none"]
NoClose == [called |-> FALSE, silent |-> FALSE, failed |-> FALSE, raised |-> FALSE]

\* entries of log
OpenOrder(a, pside, q) ==
    [ev |-> "open_order", acct |-> a, side |-> IF pside = "LONG" THEN "BUY" ELSE "SELL",
     pside |-> pside, qty |-> q, silent |-> FALSE]
CloseOrder(a, pside, amt) ==
    [ev |-> "close_order", acct |-> a, side |-> IF amt > 0 THEN "SELL" ELSE "BUY",
     pside |-> pside, qty |-> Abs(amt), silent |-> FALSE]
CloseCall(a, silent) ==
    [ev |-> "close_call", acct |-> a, side |-> "-", pside |-> "-", qty |-> 0,
     silent |-> silent]
Raise(what) ==
    [ev |-> "raise", acct |-> 0, side |-> what, pside |-> "-", qty |-> 0,
     silent |-> FALSE]

\* a filled market order of api_client.place_order: BUY/LONG adds to the LONG
\* amount, SELL/SHORT makes the SHORT amount more negative
Filled(p, pside, q) ==
    [p EXCEPT ![pside] = IF pside = "LONG" THEN @ + q ELSE @ - q]

\* variant: every row is taken, whatever its amount
NonZero_all_rows(p) == SelectSeq(SideOrder, LAMBDA s : TRUE)

\* rows of get_position_risk with a non-zero positionAmt, in row order
NonZero(p) == SelectSeq(SideOrder, LAMBDA s : p[s] # 0)

----------------------------------------------------------------------------
(* BaseTradingBot.close_positions(symbol, silent) on one account.           *)
(* n says how the exchange answered: -1 the position query raised,          *)
(* 0..Len(NonZero(p)) that many closing orders were placed; when n is less  *)
(* than the number of non-zero rows the next order raised.                  *)

CloseOutcomes(p) == -1 .. Len(NonZero(p))

\* variant: a failed close raises to its caller
close_positions_raises_on_failure(silent, failed) == failed

\* variant: a failed close raises to its caller unless it was asked to be silent
close_positions_raises_unless_silent(silent, failed) == failed /\ ~silent

\* except Exception as e: print(...)   -- the handler has no raise
close_positions_raises(silent, failed) == FALSE

close_positions(a, p, silent, n) ==
    LET nz == NonZero(p)
        k == Max(n, 0)
        failed == n < Len(nz)
    IN  [pos |-> [s \in Sides |-> IF \E i \in 1..k : nz[i] = s THEN 0 ELSE p[s]],
         events |-> <<CloseCall(a, silent)>> \o
                    [i \in 1..k |-> CloseOrder(a, nz[i], p[nz[i]])],
         filled |-> k > 0,
         failed |-> failed,
         raised |-> close_positions_raises(silent, failed)]

\* what the exchange balance is after a close that filled orders
Settled(b, filled, d) == IF filled THEN Max(0, b + d) ELSE b

\* variants of the cap test a slip would produce
loss_cap_reached_strict(pnl) == Abs(pnl) > max_loss_usdt
loss_cap_reached_losses_only(pnl) == pnl <= -max_loss_usdt
loss_cap_reached_loss_amount(pnl) == -pnl >= max_loss_usdt

\* abs(self.total_pnl) >= self.max_loss_usdt
loss_cap_reached(pnl) == Abs(pnl) >= max_loss_usdt

----------------------------------------------------------------------------
(* Closing as the engines call it.  n gives each account's CloseOutcomes.   *)

EngineCloseOutcomes(p) ==
    {n \in [Accounts -> -1..2] :
        \A a \in Accounts : IF a \in Used THEN n[a] \in CloseOutcomes(p[a]) ELSE n[a] = 0}

\* VolumeTradingBot: self.base_bot.close_positions(symbol, silent)
volume_close(p, silent, n) ==
    LET c1 == close_positions(1, p[1], silent, n[1])
    IN  [pos |-> [p EXCEPT ![1] = c1.pos],
         events |-> c1.events,
         filled |-> [a \in Accounts |-> a = 1 /\ c1.filled],
         silent |-> silent, failed |-> c1.failed, raised |-> c1.raised]

\* DualAccountBot.close_all_positions: gather of two silent closes
close_all_positions(p, n) ==
    LET c1 == close_positions(1, p[1], TRUE, n[1])
        c2 == close_positions(2, p[2], TRUE, n[2])
    IN  [pos |-> [a \in Accounts |-> IF a = 1 THEN c1.pos ELSE c2.pos],
         events |-> c1.events \o c2.events,
         filled |-> [a \in Accounts |-> IF a = 1 THEN c1.filled ELSE c2.filled],
         silent |-> TRUE,
         failed |-> c1.failed \/ c2.failed,
         raised |-> c1.raised \/ c2.raised]

\* variant: the dual handler closes the first account only
cycle_except_close_first_account(p, n) == volume_close(p, TRUE, n)

\* the close an except handler of run_*_trading_cycle issues
cycle_except_close(p, n) ==
    IF mode = "volume" THEN volume_close(p, TRUE, n) ELSE close_all_positions(p, n)

\* variant: the handler re-raises without closing
open_hedged_positions_cleanup_skipped(p, n) ==
    [pos |-> p, events |-> <<>>, filled |-> [a \in Accounts |-> FALSE],
     silent |-> TRUE, failed |-> FALSE, raised |-> FALSE]

\* except handler of open_hedged_positions: close_positions(symbol, silent=True)
open_hedged_positions_cleanup(p, n) == volume_close(p, TRUE, n)

\* variant: the handler closes the first account only
open_opposite_positions_cleanup_first_account(p, n) == volume_close(p, TRUE, n)

\* except handler of open_opposite_positions: close_all_positions(symbol)
open_opposite_positions_cleanup(p, n) == close_all_positions(p, n)

\* the balance changes a close may realise: none on an account where no
\* closing order was filled
DeltasFor(filled) ==
    {d \in [Accounts -> Deltas \cup {0}] :
        \A a \in Accounts : IF filled[a] THEN d[a] \in Deltas ELSE d[a] = 0}

AfterClose(b, c, d) == [a \in Accounts |-> Settled(b[a], c.filled[a], d[a])]

CloseRecord(c) ==
    [called |-> TRUE, silent |-> c.silent, failed |-> c.failed, raised |-> c.raised]

stats == <<total_pnl, cycles_completed, account_pnl>>
cycle_locals == <<balance_before, quantity, first_long, info, margin, hold_time,
                  elapsed, obs>>

\* the locals of open_* and of the monitor loop are gone once monitoring is over
DropMonitorLocals ==
    /\ quantity' = 0
    /\ first_long' = FALSE
    /\ info' = [a \in Accounts |-> NoInfo]
    /\ margin' = [a \in Accounts |-> Rat(0, 1)]
    /\ hold_time' = 0
    /\ elapsed' = 0
    /\ obs' = NoObs

\* the locals of a cycle are gone once run_*_trading_cycle has returned
DropLocals ==
    /\ balance_before' = [a \in Accounts |-> 0]
    /\ quantity' = 0
    /\ first_long' = FALSE
    /\ info' = [a \in Accounts |-> NoInfo]
    /\ margin' = [a \in Accounts |-> Rat(0, 1)]
    /\ hold_time' = 0
    /\ elapsed' = 0
    /\ obs' = NoObs

\* the run ends after close c was issued, with log l up to that close; the
\* balance is not sampled again, so what the close does to it is not tracked
Halt(c, l, why, rep) ==
    /\ pos' = c.pos
    /\ log' = l \o c.events
    /\ close_result' = CloseRecord(c)
    /\ pc' = "done"
    /\ cause' = why
    /\ report' = rep
    /\ DropLocals
    /\ UNCHANGED <<mode, stats, balance, sz, setup>>

\* variant: the handler counts the failed cycle as completed
cycle_except_counted(p, l) ==
    \E n \in EngineCloseOutcomes(p) :
        LET c == cycle_except_close(p, n)
        IN  /\ pos' = c.pos
            /\ log' = l \o c.events
            /\ close_result' = CloseRecord(c)
            /\ pc' = "done"
            /\ cause' = "exception"
            /\ report' = "stopped"
            /\ DropLocals
            /\ cycles_completed' = cycles_completed + 1
            /\ UNCHANGED <<mode, total_pnl, account_pnl, balance, sz, setup>>

\* except Exception in run_volume_trading_cycle / run_dual_trading_cycle:
\* close everything silently, return False; the run loop prints Stopped and breaks
cycle_except(p, l) ==
    \E n \in EngineCloseOutcomes(p) :
        Halt(cycle_except_close(p, n), l, "exception", "stopped")

\* an opening order raised: the handler of the open operation awaits its
\* cleanup close and then executes `raise`, which re-raises the opening error
\* into the cycle's handler; a cleanup that raised would leave the handler with
\* its own exception instead
open_failed(p, l) ==
    \E n \in EngineCloseOutcomes(p) :
        LET c == IF mode = "volume" THEN open_hedged_positions_cleanup(p, n)
                 ELSE open_opposite_positions_cleanup(p, n)
            leaving == IF c.raised THEN "close_positions" ELSE "open_positions"
        IN  cycle_except(c.pos, l \o c.events \o <<Raise(leaving)>>)

----------------------------------------------------------------------------
(* BaseTradingBot.setup_trading_environment.  A task is named by the await  *)
(* it is suspended at: check_hedge_mode, set_hedge_mode, sleep,             *)
(* set_leverage; then it is done or failed.                                 *)

\* an exchange call of run number run: whether it returned, and the dual-side
\* flag of the account when it was made
SetupCall(run, name, ok, flag) ==
    [run |-> run, call |-> name, ok |-> ok, dual_side |-> flag]

\* if hedge_mode: ... ; the first exchange call of a setup
setup_entry(hedge_mode) == IF hedge_mode THEN "check_hedge_mode" ELSE "set_leverage"

\* variant: the enable call is issued whatever the query returned
after_check_always_enable(current_hedge_mode) == "set_hedge_mode"

\* if not current_hedge_mode: set_hedge_mode(True), sleep; then set_leverage
after_check(current_hedge_mode) ==
    IF ~current_hedge_mode THEN "set_hedge_mode" ELSE "set_leverage"

\* no setup is running
SetupOver ==
    [hedge_mode |-> FALSE,
     dual_side |-> [a \in Accounts |-> FALSE],
     task |-> [a \in Accounts |-> "over"],
     runs |-> [a \in Accounts |-> 0],
     calls |-> [a \in Accounts |-> <<>>]]

\* the bots of accts are about to run their setup: hedge mode requested or
\* not, the dual-side flag of each account on or off
SetupStarts(accts) ==
    {[hedge_mode |-> h,
      dual_side |-> d,
      task |-> [a \in Accounts |-> IF a \in accts THEN setup_entry(h) ELSE "over"],
      runs |-> [a \in Accounts |-> IF a \in accts THEN 1 ELSE 0],
      calls |-> [a \in Accounts |-> <<>>]] :
        h \in BOOLEAN,
        d \in {f \in [Accounts -> BOOLEAN] : \A a \in Accounts \ accts : ~f[a]}}

\* the bots whose setup runs: those of the engine, or both in the harness
SetupAccounts == IF pc = "off" THEN Accounts ELSE Used

----------------------------------------------------------------------------
(* Initial state: a constructed bot, nothing open on the exchange *)

EngineInit ==
    /\ mode \in {"volume", "dual"}
    /\ pc = "setup"
    /\ cause = "none"
    /\ report = "none"
    /\ total_pnl = 0
    /\ cycles_completed = 0
    /\ account_pnl = [a \in Accounts |-> 0]
    /\ balance \in StartBalances[mode]
    /\ balance_before = [a \in Accounts |-> 0]
    /\ pos = [a \in Accounts |-> NoPositions]
    /\ quantity = 0
    /\ first_long = FALSE
    /\ info = [a \in Accounts |-> NoInfo]
    /\ margin = [a \in Accounts |-> Rat(0, 1)]
    /\ hold_time = 0
    /\ elapsed = 0
    /\ obs = NoObs
    /\ close_result = NoClose
    /\ log = <<>>
    /\ setup \in SetupStarts(Used)

NoSizing == [phase |-> "off"]

Init == EngineInit /\ sz = NoSizing

----------------------------------------------------------------------------
(* start_volume_trading / start_dual_trading before the loop *)

\* one await of BaseTradingBot.setup_trading_environment on account a: the
\* exchange call the task is suspended at returns (ok) or raises
setup_trading_environment_step(a) ==
    \E ok \in BOOLEAN :
        LET at == setup.task[a]
            current_hedge_mode == setup.dual_side[a]
            nxt == IF at = "sleep" THEN "set_leverage"
                   ELSE IF ~ok THEN "failed"
                   ELSE IF at = "check_hedge_mode" THEN after_check(current_hedge_mode)
                   ELSE IF at = "set_hedge_mode" THEN "sleep"
                   ELSE "done"
        IN  /\ at \in {"check_hedge_mode", "set_hedge_mode", "sleep", "set_leverage"}
            /\ (at = "sleep") => ok
            /\ setup' = [setup EXCEPT
                   !.task[a] = nxt,
                   !.calls[a] = IF at = "sleep" THEN @
                                ELSE Append(@, SetupCall(setup.runs[a], at, ok,
                                                         current_hedge_mode)),
                   !.dual_side[a] = IF at = "set_hedge_mode" /\ ok THEN TRUE ELSE @]

\* the event loop resumes one of the setup tasks
setup_step ==
    /\ pc \in {"setup", "off"}
    /\ \E a \in SetupAccounts : setup_trading_environment_step(a)
    /\ UNCHANGED non_setup

\* variant: asyncio.gather(..., return_exceptions=True)
gather_result_return_exceptions(task, accts) ==
    IF \A a \in accts : task[a] \in {"done", "failed"} THEN "return" ELSE "pending"

\* await asyncio.gather(t1, t2): the first exception of a task is raised to the
\* awaiting caller at once, the results are returned when every task is done
gather_result(task, accts) ==
    IF \E a \in accts : task[a] = "failed" THEN "raise"
    ELSE IF \A a \in accts : task[a] = "done" THEN "return"
    ELSE "pending"

\* await setup_trading_environment (volume) / await setup_both_accounts (dual)
\* returns or raises; it is awaited before the try block, so a failure leaves
\* the start_* coroutine
start_setup ==
    /\ pc = "setup"
    /\ LET r == gather_result(setup.task, Used)
       IN  /\ r # "pending"
           /\ IF r = "return"
              THEN /\ pc' = "cycle"
                   /\ setup' = SetupOver
                   /\ UNCHANGED <<cause, report>>
              ELSE /\ pc' = "done"
                   /\ cause' = "setup_error"
                   /\ report' = "raised"
                   /\ UNCHANGED setup
    /\ UNCHANGED <<mode, stats, balance, pos, cycle_locals, close_result, log, sz>>

\* top of run_*_trading_cycle: the cap check, then the balance samples
cycle_begin ==
    /\ pc = "cycle"
    /\ cycles_completed < MaxCycles
    /\ IF loss_cap_reached(total_pnl)
       THEN /\ pc' = "done"
            /\ cause' = "cap"
            /\ report' = "stopped"
            /\ UNCHANGED <<mode, stats, balance, pos, cycle_locals, close_result, log, sz, setup>>
       ELSE \E ok \in BOOLEAN :
            IF ok
            THEN /\ balance_before' = [a \in Accounts |-> IF a \in Used THEN balance[a] ELSE 0]
                 /\ log' = <<>>
                 /\ obs' = NoObs
                 /\ close_result' = NoClose
                 /\ pc' = "open_prepare"
                 /\ UNCHANGED <<mode, cause, report, stats, balance, pos, quantity,
                                first_long, info, margin, hold_time, elapsed, sz, setup>>
            ELSE cycle_except(pos, <<Raise("get_usdt_balance")>>)

----------------------------------------------------------------------------
(* Opening *)

PrepOutcomes == {"ok", "request_failed"}

\* What /fapi/v1/exchangeInfo answers about the symbol: whether it is listed
\* and which of its filters are there
FilterTypes == {"PRICE_FILTER", "LOT_SIZE", "MIN_NOTIONAL"}
ExchangeInfos ==
    {[listed |-> l, filters |-> f] :
        l \in BOOLEAN, f \in {FilterTypes} \cup {FilterTypes \ {t} : t \in FilterTypes}}
\* Optional[SymbolInfo]: the empty sequence is None, <<info>> holds info
None == <<>>

\* the keys get_symbol_info collects from the filters of the symbol
filter_keys(filters) ==
    (IF "PRICE_FILTER" \in filters THEN {"tick_size"} ELSE {}) \cup
    (IF "LOT_SIZE" \in filters THEN {"step_size", "min_qty"} ELSE {}) \cup
    (IF "MIN_NOTIONAL" \in filters THEN {"min_notional"} ELSE {})

\* variant: the symbol's rules are returned without the completeness test
get_symbol_info_unchecked(exchange_info) ==
    IF exchange_info.listed THEN <<SymbolInfo>> ELSE None

\* AsterApiClient.get_symbol_info
get_symbol_info(exchange_info) ==
    IF /\ exchange_info.listed
       /\ \A k \in {"tick_size", "step_size", "min_qty", "min_notional"} :
              k \in filter_keys(exchange_info.filters)
    THEN <<SymbolInfo>>
    ELSE None

\* The first cycle of a run is followed with every answer of the exchange and
\* every random draw; the cycles after it with one of each (an order filled at
\* the market price, a poll that reports no PnL and takes no extra time, the
\* shortest time box), while every failure stays possible in every cycle.
FirstCycle == cycles_completed = 0
EntryPricesNow == IF FirstCycle THEN EntryPrices ELSE {mid_price}
LatenciesNow == IF FirstCycle THEN 0..MaxLatency ELSE {0}
HoldTimesNow ==
    IF FirstCycle THEN min_hold_time_sec..max_hold_time_sec ELSE {min_hold_time_sec}
CloseTimesNow ==
    IF FirstCycle THEN min_close_time_sec..max_close_time_sec ELSE {min_close_time_sec}
Opposite(side) == IF side = "LONG" THEN "SHORT" ELSE "LONG"

\* the balance open_hedged_positions refuses to size against
no_usdt_balance(usdt_balance) == usdt_balance = 0

\* open_hedged_positions up to the try block, given how its requests are
\* answered (r), what the exchange says about the symbol and the random draw
open_hedged_positions_sizing(r, exchange_info, lf) ==
    LET symbol_info == get_symbol_info(exchange_info)
    IN  IF r # "ok" \/ no_usdt_balance(balance[1])
        THEN cycle_except(pos, log \o <<Raise("open_prepare")>>)
        ELSE IF symbol_info = None
        THEN cycle_except(pos, log \o <<Raise("get_symbol_info")>>)
        ELSE /\ quantity' = calculate_position_size(Calculator, symbol_info[1], mid_price,
                                                    balance[1], leverage, FALSE)
             /\ first_long' = lf
             /\ pc' = "leg1"
             /\ UNCHANGED <<mode, cause, report, stats, balance, balance_before, pos,
                            info, margin, hold_time, elapsed, obs, close_result, log, sz, setup>>

\* open_hedged_positions up to the try block: balance, symbol info, prices, sizing
open_hedged_positions_prepare ==
    /\ pc = "open_prepare"
    /\ mode = "volume"
    /\ \E r \in PrepOutcomes, exchange_info \in ExchangeInfos, lf \in BOOLEAN :
        open_hedged_positions_sizing(r, exchange_info, lf)

\* variant: sized against the first account's balance
sizing_balance_first(balance1, balance2) == balance1

\* the balance open_opposite_positions sizes against
sizing_balance(balance1, balance2) == Min(balance1, balance2)

\* open_opposite_positions up to the try block, given how its requests are
\* answered (r), what the exchange says about the symbol and the random draw
open_opposite_positions_sizing(r, exchange_info, lf) ==
    LET symbol_info == get_symbol_info(exchange_info)
    IN  IF r # "ok"
        THEN cycle_except(pos, log \o <<Raise("open_prepare")>>)
        ELSE IF symbol_info = None
        THEN cycle_except(pos, log \o <<Raise("get_symbol_info")>>)
        ELSE /\ quantity' = calculate_position_size(Calculator, symbol_info[1], mid_price,
                                sizing_balance(balance[1], balance[2]), leverage, TRUE)
             /\ first_long' = lf
             /\ pc' = "leg1"
             /\ UNCHANGED <<mode, cause, report, stats, balance, balance_before, pos,
                            info, margin, hold_time, elapsed, obs, close_result, log, sz, setup>>

\* open_opposite_positions up to the try block
open_opposite_positions_prepare ==
    /\ pc = "open_prepare"
    /\ mode = "dual"
    /\ \E r \in PrepOutcomes, exchange_info \in ExchangeInfos, lf \in BOOLEAN :
        open_opposite_positions_sizing(r, exchange_info, lf)

\* one opening market order on account a; ok says whether place_order returned
place_opening_order(a, pside, q, ok, next_pc) ==
    IF ok
    THEN /\ pos' = [pos EXCEPT ![a] = Filled(@, pside, q)]
         /\ log' = Append(log, OpenOrder(a, pside, q))
         /\ pc' = next_pc
         /\ UNCHANGED <<mode, cause, report, stats, balance, balance_before,
                        quantity, first_long, close_result, sz, setup>>
    ELSE open_failed(pos, log \o <<Raise("place_order")>>)

\* variant: the second order repeats the side of the first
hedge_order_sides_repeated(open_long_first) ==
    IF open_long_first THEN <<"LONG", "LONG">> ELSE <<"SHORT", "SHORT">>

\* the position sides of the two orders of open_hedged_positions, in the
\* order they are submitted
hedge_order_sides(open_long_first) ==
    IF open_long_first THEN <<"LONG", "SHORT">> ELSE <<"SHORT", "LONG">>

\* open_hedged_positions: the first of the two legs
open_hedged_positions_leg1 ==
    /\ pc = "leg1"
    /\ mode = "volume"
    /\ \E ok \in BOOLEAN :
        /\ place_opening_order(1, hedge_order_sides(first_long)[1], quantity, ok, "leg2")
        /\ IF ok THEN UNCHANGED <<info, margin, hold_time, elapsed, obs>> ELSE TRUE

\* open_hedged_positions: the second leg; on return run_volume_trading_cycle
\* draws close_time and takes start_time
open_hedged_positions_leg2 ==
    /\ pc = "leg2"
    /\ mode = "volume"
    /\ \E ok \in BOOLEAN, ct \in CloseTimesNow :
        /\ place_opening_order(1, hedge_order_sides(first_long)[2], quantity, ok, "monitor")
        /\ IF ok THEN /\ hold_time' = ct
                      /\ elapsed' = 0
                      /\ UNCHANGED <<info, margin, obs>>
           ELSE TRUE

\* variant: the order of bot2 is submitted before the order of bot1
order_of_accounts_bot2_first == <<2, 1>>

\* open_opposite_positions orders on self.bot1, then on self.bot2
order_of_accounts == <<1, 2>>

\* variant: both accounts get the side of the first
opposite_sides_same(long_on_first) ==
    IF long_on_first THEN <<"LONG", "LONG">> ELSE <<"SHORT", "SHORT">>

\* side1, side2 of open_opposite_positions
opposite_sides(long_on_first) ==
    IF long_on_first THEN <<"LONG", "SHORT">> ELSE <<"SHORT", "LONG">>

\* open_opposite_positions: the order on account 1 (bot1)
open_opposite_positions_leg1 ==
    /\ pc = "leg1"
    /\ mode = "dual"
    /\ \E ok \in BOOLEAN, ep \in EntryPricesNow :
        LET side1 == opposite_sides(first_long)[1]
        IN  /\ place_opening_order(order_of_accounts[1], side1, quantity, ok, "leg2")
            /\ IF ok THEN /\ info' = [info EXCEPT ![1] = [quantity |-> quantity,
                                                          entry_price |-> ep, side |-> side1]]
                          /\ UNCHANGED <<margin, hold_time, elapsed, obs>>
               ELSE TRUE

\* variant: the margin is taken at the market price instead of the entry price
position_margin_at_market(position_info, lev) ==
    Rat(position_info.quantity * mid_price, lev * QtyScale)

\* position1_margin / position2_margin of monitor_positions
position_margin(position_info, lev) ==
    Rat(position_info.quantity * position_info.entry_price, lev * QtyScale)

\* open_opposite_positions: the order on account 2 (bot2); on return
\* monitor_positions draws hold_time, takes start_time and computes the margins
open_opposite_positions_leg2 ==
    /\ pc = "leg2"
    /\ mode = "dual"
    /\ \E ok \in BOOLEAN, ep \in EntryPricesNow, ht \in HoldTimesNow :
        LET side2 == opposite_sides(first_long)[2]
            info2 == [info EXCEPT ![2] = [quantity |-> quantity,
                                          entry_price |-> ep, side |-> side2]]
        IN  /\ place_opening_order(order_of_accounts[2], side2, quantity, ok, "monitor")
            /\ IF ok THEN /\ info' = info2
                          /\ margin' = [a \in Accounts |-> position_margin(info2[a], leverage)]
                          /\ hold_time' = ht
                          /\ elapsed' = 0
                          /\ UNCHANGED obs
               ELSE TRUE

----------------------------------------------------------------------------
(* Monitoring *)

\* the clock of the model stops here; a monitor loop that honours its time box
\* is never suspended with a later clock
MaxElapsed == Max(max_hold_time_sec, max_close_time_sec) + volume_check_interval + MaxLatency

\* what get_position_risk may report as unRealizedProfit, per account and side
ReportOf(p, a, s) == IF p[a][s] # 0 /\ FirstCycle THEN UPnl ELSE {0}
Reports(p) ==
    {<<[LONG |-> l1, SHORT |-> s1], [LONG |-> l2, SHORT |-> s2]>> :
        l1 \in ReportOf(p, 1, "LONG"), s1 \in ReportOf(p, 1, "SHORT"),
        l2 \in ReportOf(p, 2, "LONG"), s2 \in ReportOf(p, 2, "SHORT")}

\* check_positions_status / sum over get_position_details: unrealized PnL
\* summed over the rows with a non-zero amount
positions_pnl(p, rp, a) ==
    (IF p[a]["LONG"] # 0 THEN rp[a]["LONG"] ELSE 0) +
    (IF p[a]["SHORT"] # 0 THEN rp[a]["SHORT"] ELSE 0)

\* variant: the close time is not checked
volume_monitor_decision_no_time_box(current_pnl, el, close_time) ==
    IF current_pnl > 0 THEN "profit" ELSE "continue"

\* the two break conditions of run_volume_trading_cycle's while loop
volume_monitor_decision(current_pnl, el, close_time) ==
    IF current_pnl > 0 THEN "profit"
    ELSE IF el >= close_time THEN "time"
    ELSE "continue"

\* one pass of the while loop of run_volume_trading_cycle
volume_monitor_poll ==
    /\ pc = "monitor"
    /\ mode = "volume"
    /\ elapsed <= MaxElapsed
    /\ \E ok \in BOOLEAN :
        IF ok
        THEN \E rp \in Reports(pos), lat \in LatenciesNow :
             LET current_pnl == positions_pnl(pos, rp, 1)
                 stop == volume_monitor_decision(current_pnl, elapsed, hold_time)
             IN  /\ obs' = [rp |-> rp, at |-> elapsed, stop |-> stop]
                 /\ IF stop = "continue"
                    THEN /\ elapsed' = elapsed + volume_check_interval + lat
                         /\ pc' = "monitor"
                    ELSE /\ elapsed' = elapsed
                         /\ pc' = "close"
                 /\ UNCHANGED <<mode, cause, report, stats, balance, balance_before, pos,
                                quantity, first_long, info, margin, hold_time,
                                close_result, log, sz, setup>>
        ELSE cycle_except(pos, log \o <<Raise("check_positions_status")>>)

\* variant: without the zero test a margin of zero counts as a full deviation
calculate_position_deviation_zero_margin_full(unrealized_pnl, initial_margin) ==
    IF initial_margin.n = 0 THEN Rat(100, 1)
    ELSE Rat(Abs(unrealized_pnl) * initial_margin.d * 100, Abs(initial_margin.n))

\* DualAccountBot.calculate_position_deviation, as a rational percentage
calculate_position_deviation(unrealized_pnl, initial_margin) ==
    IF initial_margin.n = 0 THEN Rat(0, 1)
    ELSE Rat(Abs(unrealized_pnl) * initial_margin.d * 100, Abs(initial_margin.n))

\* deviation >= self.max_position_deviation_percent
deviation_exceeded(deviation) ==
    RatLeq(Rat(max_position_deviation_percent, 1), deviation)

\* the for loop over one account's active positions
account_deviation_stop(p, rp, position_info, initial_margin, a) ==
    \E s \in Sides :
        /\ p[a][s] # 0
        /\ s = position_info.side
        /\ deviation_exceeded(calculate_position_deviation(rp[a][s], initial_margin))

\* variant: the deviation of the second account is not checked
monitor_decision_account1_only(p, rp, inf, mar, el, ht) ==
    IF NonZero(p[1]) = <<>> \/ NonZero(p[2]) = <<>> THEN "vanish"
    ELSE IF account_deviation_stop(p, rp, inf[1], mar[1], 1) THEN "deviation1"
    ELSE IF positions_pnl(p, rp, 1) + positions_pnl(p, rp, 2) > 0 THEN "profit"
    ELSE IF el >= ht THEN "time"
    ELSE "continue"

\* variant: monitoring goes on until both accounts are flat
monitor_decision_vanish_both(p, rp, inf, mar, el, ht) ==
    IF NonZero(p[1]) = <<>> /\ NonZero(p[2]) = <<>> THEN "vanish"
    ELSE IF account_deviation_stop(p, rp, inf[1], mar[1], 1) THEN "deviation1"
    ELSE IF account_deviation_stop(p, rp, inf[2], mar[2], 2) THEN "deviation2"
    ELSE IF positions_pnl(p, rp, 1) + positions_pnl(p, rp, 2) > 0 THEN "profit"
    ELSE IF el >= ht THEN "time"
    ELSE "continue"

\* variant: a combined PnL of zero already takes profit
monitor_decision_profit_at_zero(p, rp, inf, mar, el, ht) ==
    IF NonZero(p[1]) = <<>> \/ NonZero(p[2]) = <<>> THEN "vanish"
    ELSE IF account_deviation_stop(p, rp, inf[1], mar[1], 1) THEN "deviation1"
    ELSE IF account_deviation_stop(p, rp, inf[2], mar[2], 2) THEN "deviation2"
    ELSE IF positions_pnl(p, rp, 1) + positions_pnl(p, rp, 2) >= 0 THEN "profit"
    ELSE IF el >= ht THEN "time"
    ELSE "continue"

\* variant: the hold time is not checked
monitor_decision_no_time_box(p, rp, inf, mar, el, ht) ==
    IF NonZero(p[1]) = <<>> \/ NonZero(p[2]) = <<>> THEN "vanish"
    ELSE IF account_deviation_stop(p, rp, inf[1], mar[1], 1) THEN "deviation1"
    ELSE IF account_deviation_stop(p, rp, inf[2], mar[2], 2) THEN "deviation2"
    ELSE IF positions_pnl(p, rp, 1) + positions_pnl(p, rp, 2) > 0 THEN "profit"
    ELSE "continue"

\* one pass of the while loop of monitor_positions, up to its return or sleep
monitor_decision(p, rp, inf, mar, el, ht) ==
    IF NonZero(p[1]) = <<>> \/ NonZero(p[2]) = <<>> THEN "vanish"
    ELSE IF account_deviation_stop(p, rp, inf[1], mar[1], 1) THEN "deviation1"
    ELSE IF account_deviation_stop(p, rp, inf[2], mar[2], 2) THEN "deviation2"
    ELSE IF positions_pnl(p, rp, 1) + positions_pnl(p, rp, 2) > 0 THEN "profit"
    ELSE IF el >= ht THEN "time"
    ELSE "continue"

monitor_positions_poll ==
    /\ pc = "monitor"
    /\ mode = "dual"
    /\ elapsed <= MaxElapsed
    /\ \E ok \in BOOLEAN :
        IF ok
        THEN \E rp \in Reports(pos), lat \in LatenciesNow :
             LET stop == monitor_decision(pos, rp, info, margin, elapsed, hold_time)
             IN  /\ obs' = [rp |-> rp, at |-> elapsed, stop |-> stop]
                 /\ IF stop = "continue"
                    THEN /\ elapsed' = elapsed + dual_check_interval + lat
                         /\ pc' = "monitor"
                    ELSE /\ elapsed' = elapsed
                         /\ pc' = "close"
                 /\ UNCHANGED <<mode, cause, report, stats, balance, balance_before, pos,
                                quantity, first_long, info, margin, hold_time,
                                close_result, log, sz, setup>>
        ELSE cycle_except(pos, log \o <<Raise("get_position_details")>>)

\* the exchange closes a position by itself (liquidation) while it is monitored
exchange_closes_position ==
    /\ pc = "monitor"
    /\ FirstCycle
    /\ \E a \in Used, s \in Sides :
        /\ pos[a][s] # 0
        /\ pos' = [pos EXCEPT ![a][s] = 0]
        /\ balance' = [balance EXCEPT ![a] = Settled(@, TRUE, -50)]
    /\ UNCHANGED <<mode, pc, cause, report, stats, cycle_locals, close_result, log, sz, setup>>

----------------------------------------------------------------------------
(* Closing and settling a cycle *)

\* the close the cycle itself issues after monitoring:
\* volume  await self.base_bot.close_positions(symbol)   (silent=False)
\* dual    await self.close_all_positions(symbol)
end_of_cycle_close(p, n) ==
    IF mode = "volume" THEN volume_close(p, FALSE, n) ELSE close_all_positions(p, n)

\* close, then asyncio.sleep(1)
cycle_close ==
    /\ pc = "close"
    /\ \E n \in EngineCloseOutcomes(pos) :
        LET c == end_of_cycle_close(pos, n)
        IN  \E d \in DeltasFor(c.filled) :
            IF c.raised
            THEN cycle_except(c.pos, log \o c.events \o <<Raise("close_positions")>>)
            ELSE /\ pos' = c.pos
                 /\ balance' = AfterClose(balance, c, d)
                 /\ log' = log \o c.events
                 /\ close_result' = CloseRecord(c)
                 /\ pc' = "settle"
                 /\ DropMonitorLocals
                 /\ UNCHANGED <<mode, cause, report, stats, balance_before, sz, setup>>

\* variant: the balance before the cycle is not subtracted
account_delta_after_only(balance_after, bal_before) == balance_after

\* cycle_pnl = balance_after - balance_before (per account in the dual engine)
account_delta(balance_after, bal_before) == balance_after - bal_before

\* variant: the first account's delta is left out
cycle_pnl_second_account(account_cycle_pnl) == account_cycle_pnl[2]

\* variant: the second account's delta is left out
cycle_pnl_first_account(account_cycle_pnl) == account_cycle_pnl[1]

\* cycle_pnl = account1_cycle_pnl + account2_cycle_pnl (volume: the one delta)
cycle_pnl(account_cycle_pnl) == account_cycle_pnl[1] + account_cycle_pnl[2]

\* balance samples after the close, the statistics update, the second cap check
cycle_settle ==
    /\ pc = "settle"
    /\ \E ok \in BOOLEAN :
        IF ok
        THEN LET account_cycle_pnl == [a \in Accounts |->
                     IF a \in Used THEN account_delta(balance[a], balance_before[a]) ELSE 0]
                 this_cycle_pnl == cycle_pnl(account_cycle_pnl)
             IN  /\ account_pnl' = IF mode = "dual"
                        THEN [a \in Accounts |-> account_pnl[a] + account_cycle_pnl[a]]
                        ELSE account_pnl
                 /\ total_pnl' = total_pnl + this_cycle_pnl
                 /\ cycles_completed' = cycles_completed + 1
                 /\ IF loss_cap_reached(total_pnl + this_cycle_pnl)
                    THEN /\ pc' = "done"
                         /\ cause' = "cap"
                         /\ report' = "stopped"
                    ELSE /\ pc' = "delay"
                         /\ UNCHANGED <<cause, report>>
                 /\ DropLocals
                 /\ UNCHANGED <<mode, balance, pos, close_result, log, sz, setup>>
        ELSE cycle_except(pos, log \o <<Raise("get_usdt_balance")>>)

\* variant: the run loop sets the environment up again before each cycle
cycle_delay_then_setup ==
    /\ pc = "delay"
    /\ pc' = "setup"
    /\ \E s \in SetupStarts(Used) : setup' = s
    /\ UNCHANGED <<mode, cause, report, stats, balance, pos, cycle_locals,
                   close_result, log, sz>>

\* asyncio.sleep(delay); return True; the run loop calls the cycle again
cycle_delay ==
    /\ pc = "delay"
    /\ pc' = "cycle"
    /\ UNCHANGED <<mode, cause, report, stats, balance, pos, cycle_locals,
                   close_result, log, sz, setup>>

----------------------------------------------------------------------------
(* Operator interrupt.  The loop is suspended at an await inside            *)
(* try: ... except KeyboardInterrupt: ... except Exception: ...             *)
(* What the coroutine is resumed with is decided by the event loop that     *)
(* runs it, which is not part of these classes: either KeyboardInterrupt     *)
(* is raised at the await, or the task is cancelled and the await raises    *)
(* asyncio.CancelledError, a BaseException neither clause names.            *)

LoopPcs == {"cycle", "open_prepare", "leg1", "leg2", "monitor", "close", "settle", "delay"}
Deliveries == {"KeyboardInterrupt", "CancelledError"}

\* the except clause of start_*_trading that handles the delivered exception
interrupt_handler(delivered) ==
    IF delivered = "KeyboardInterrupt" THEN "except KeyboardInterrupt" ELSE "unhandled"

\* except KeyboardInterrupt of start_volume_trading / start_dual_trading
interrupt ==
    /\ pc \in LoopPcs
    /\ \E delivered \in Deliveries :
        IF interrupt_handler(delivered) = "except KeyboardInterrupt"
        THEN \E n \in EngineCloseOutcomes(pos) :
                LET c == end_of_cycle_close(pos, n)
                IN  Halt(c, log \o <<Raise(delivered)>>, "interrupt",
                         IF c.raised THEN "raised" ELSE "final_stats")
        ELSE /\ pc' = "done"
             /\ cause' = "cancelled"
             /\ report' = "raised"
             /\ log' = log \o <<Raise(delivered)>>
             /\ DropLocals
             /\ UNCHANGED <<mode, stats, balance, pos, close_result, sz, setup>>

----------------------------------------------------------------------------

Next ==
    \/ setup_step
    \/ start_setup
    \/ cycle_begin
    \/ open_hedged_positions_prepare
    \/ open_hedged_positions_leg1
    \/ open_hedged_positions_leg2
    \/ open_opposite_positions_prepare
    \/ open_opposite_positions_leg1
    \/ open_opposite_positions_leg2
    \/ volume_monitor_poll
    \/ monitor_positions_poll
    \/ exchange_closes_position
    \/ cycle_close
    \/ cycle_settle
    \/ cycle_delay
    \/ interrupt

Spec == Init /\ [][Next]_vars

\* one call of run_dual_trading_cycle of a DualAccountBot, from the setup that
\* precedes it to the settlement of its result
DualCycleInit == EngineInit /\ mode = "dual" /\ sz = NoSizing

DualCycleNext ==
    \/ setup_step
    \/ start_setup
    \/ cycle_begin
    \/ open_opposite_positions_prepare
    \/ open_opposite_positions_leg1
    \/ open_opposite_positions_leg2
    \/ monitor_positions_poll
    \/ exchange_closes_position
    \/ cycle_close
    \/ cycle_settle
    \/ interrupt

\* the event loop resumes monitor_positions once its sleep or request completed
DualCycleFairSpec ==
    DualCycleInit /\ [][DualCycleNext]_vars /\ WF_vars(monitor_positions_poll)

\* one call of run_volume_trading_cycle of a VolumeTradingBot, from the setup
\* that precedes it to the settlement of its result
VolumeCycleInit == EngineInit /\ mode = "volume" /\ sz = NoSizing

VolumeCycleNext ==
    \/ setup_step
    \/ start_setup
    \/ cycle_begin
    \/ open_hedged_positions_prepare
    \/ open_hedged_positions_leg1
    \/ open_hedged_positions_leg2
    \/ volume_monitor_poll
    \/ exchange_closes_position
    \/ cycle_close
    \/ cycle_settle
    \/ interrupt

\* the event loop resumes run_volume_trading_cycle once its sleep or request
\* completed
VolumeCycleFairSpec ==
    /\ VolumeCycleInit /\ [][VolumeCycleNext]_vars
    /\ WF_vars(volume_monitor_poll) /\ WF_vars(cycle_close)

----------------------------------------------------------------------------
(* Harness of BaseTradingBot.setup_trading_environment: two bots, each on   *)
(* its own account, whose setup may be called again once it has returned or *)
(* raised; the dual-side flag of an account persists between the calls.     *)

\* await bot.setup_trading_environment(symbol, leverage, hedge_mode), once more
setup_again ==
    /\ pc = "off"
    /\ \E a \in Accounts :
        /\ setup.task[a] \in {"done", "failed"}
        /\ setup.runs[a] < SetupCalls
        /\ setup' = [setup EXCEPT !.task[a] = setup_entry(setup.hedge_mode),
                                  !.runs[a] = @ + 1]
    /\ UNCHANGED non_setup

SetupNext ==
    \/ setup_step
    \/ setup_again

----------------------------------------------------------------------------
(* Harness of the pure function calculate_position_size: the arguments are  *)
(* drawn in the initial state and one step applies the function.            *)

SizePrices == {99, 100, 101}
SizeBalances == {1, 300, 1000}
SizeLeverages == {1, 10}
SizeSteps == {1, 10}
SizeMinQtys == {1, 10}
SizeMinNotionals == {5}
SizeMultipliers == {10, 12}
SizePercentages == {50, 100}

EngineOff ==
    /\ mode = "volume"
    /\ pc = "off"
    /\ cause = "none"
    /\ report = "none"
    /\ total_pnl = 0
    /\ cycles_completed = 0
    /\ account_pnl = [a \in Accounts |-> 0]
    /\ balance = <<0, 0>>
    /\ balance_before = [a \in Accounts |-> 0]
    /\ pos = [a \in Accounts |-> NoPositions]
    /\ quantity = 0
    /\ first_long = FALSE
    /\ info = [a \in Accounts |-> NoInfo]
    /\ margin = [a \in Accounts |-> Rat(0, 1)]
    /\ hold_time = 0
    /\ elapsed = 0
    /\ obs = NoObs
    /\ close_result = NoClose
    /\ log = <<>>

SetupInit == EngineOff /\ sz = NoSizing /\ setup \in SetupStarts(Accounts)

SetupSpec == SetupInit /\ [][SetupNext]_vars

SizeInit ==
    /\ EngineOff
    /\ setup = SetupOver
    /\ sz \in [phase : {"args"},
                calc : [liquidity_multiplier : SizeMultipliers,
                        balance_percentage : SizePercentages],
                symbol_info : [tick_size : {1}, step_size : SizeSteps,
                               min_qty : SizeMinQtys, min_notional : SizeMinNotionals],
                price : SizePrices,
                available_balance : SizeBalances,
                leverage : SizeLeverages,
                single_position : BOOLEAN,
                result : {0}]

\* quantity = self.calculator.calculate_position_size(...)
size_call ==
    /\ sz.phase = "args"
    /\ sz' = [sz EXCEPT !.phase = "sized",
                        !.result = calculate_position_size(sz.calc, sz.symbol_info, sz.price,
                                       sz.available_balance, sz.leverage, sz.single_position)]
    /\ UNCHANGED engine

SizeNext == size_call

SizeSpec == SizeInit /\ [][SizeNext]_vars

----------------------------------------------------------------------------
(* Harness of BaseTradingBot.close_positions: the positions the exchange    *)
(* reports are drawn in the initial state and each step is one call on one  *)
(* account.                                                                 *)

CloseCalls == 2

\* positionAmt of a row of get_position_risk, in 1/QtyScale
CloseAmounts == {-60, 0, 60}

CloseInit ==
    /\ mode = "dual"
    /\ pc = "off"
    /\ cause = "none"
    /\ report = "none"
    /\ total_pnl = 0
    /\ cycles_completed = 0
    /\ account_pnl = [a \in Accounts |-> 0]
    /\ balance = <<0, 0>>
    /\ balance_before = [a \in Accounts |-> 0]
    /\ pos \in [Accounts -> [Sides -> CloseAmounts]]
    /\ quantity = 0
    /\ first_long = FALSE
    /\ info = [a \in Accounts |-> NoInfo]
    /\ margin = [a \in Accounts |-> Rat(0, 1)]
    /\ hold_time = 0
    /\ elapsed = 0
    /\ obs = NoObs
    /\ close_result = NoClose
    /\ log = <<>>
    /\ sz = NoSizing
    /\ setup = SetupOver

\* await bot.close_positions(symbol, silent)
close_positions_call ==
    /\ pc = "off"
    /\ Cardinality({i \in DOMAIN log : log[i].ev = "close_call"}) < CloseCalls
    /\ \E a \in Accounts, silent \in BOOLEAN :
        \E n \in CloseOutcomes(pos[a]) :
            LET c == close_positions(a, pos[a], silent, n)
            IN  /\ pos' = [pos EXCEPT ![a] = c.pos]
                /\ log' = log \o c.events
                /\ close_result' = [called |-> TRUE, silent |-> silent,
                                    failed |-> c.failed, raised |-> c.raised]
    /\ UNCHANGED <<mode, pc, cause, report, stats, balance, cycle_locals, sz, setup>>

CloseNext == close_positions_call

CloseSpec == CloseInit /\ [][CloseNext]_vars

----------------------------------------------------------------------------
(* Properties *)

OpenOrders(l) == {i \in DOMAIN l : l[i].ev = "open_order"}
Raises(l, tags) == {i \in DOMAIN l : l[i].ev = "raise" /\ l[i].side \in tags}
CycleErrors == {"get_usdt_balance", "open_prepare", "get_symbol_info", "place_order",
                "open_positions",
                "check_positions_status", "get_position_details", "close_positions"}
LoopStopped == pc = "done" /\ cause # "setup_error"

\* C1 as stated: the cycle loop has stopped if and only if
\* abs(total_pnl) >= max_loss_usdt (termination implies the cap was reached and
\* reaching the cap implies termination)
C1_StopsIffCapReached ==
    LoopStopped <=> (Abs(total_pnl) >= max_loss_usdt)

\* C1 amended: whenever abs(total_pnl) >= max_loss_usdt the loop has stopped, and a
\* loop that stopped for another reason than an exception inside a cycle or an
\* operator interrupt stopped with abs(total_pnl) >= max_loss_usdt
C1_CapStopsLoop ==
    /\ (Abs(total_pnl) >= max_loss_usdt) => pc = "done"
    /\ (LoopStopped /\ cause \notin {"exception", "interrupt", "cancelled"})
           => (Abs(total_pnl) >= max_loss_usdt)

C1_Witness ==
    /\ pc = "done"
    /\ cause = "cap"
    /\ cycles_completed >= 1
    /\ Abs(total_pnl) >= max_loss_usdt

\* C2: no opening order is placed while abs(total_pnl) >= max_loss_usdt; a settle
\* that brings abs(total_pnl) to the cap or above ends the run in the same step,
\* never reaches the inter-cycle delay, and a run that ended places nothing more
C2_NoOpenAtCap ==
    [][ /\ (Cardinality(OpenOrders(log')) > Cardinality(OpenOrders(log)))
               => (Abs(total_pnl) < max_loss_usdt /\ Abs(total_pnl') < max_loss_usdt)
        /\ (cycles_completed' # cycles_completed /\ Abs(total_pnl') >= max_loss_usdt)
               => pc' = "done"
        /\ (pc' = "delay") => (Abs(total_pnl') < max_loss_usdt)
        /\ (pc = "done") => (pc' = "done" /\ log' = log) ]_vars

C2_Witness ==
    /\ pc = "done"
    /\ cause = "cap"
    /\ Abs(total_pnl) = max_loss_usdt
    /\ cycles_completed >= 1

\* C3: in open_hedged_positions, when an opening order raises (the first leg, or
\* the second after the first was placed), close_positions is called for the
\* symbol before the error leaves open_hedged_positions
C3_CloseBeforeOpenErrorPropagates ==
    mode = "volume" =>
        \A i \in DOMAIN log :
            log[i] = Raise("open_positions") =>
                \E k \in DOMAIN log, j \in DOMAIN log :
                    /\ k < j /\ j < i
                    /\ log[k] = Raise("place_order")
                    /\ log[j] = CloseCall(1, TRUE)

\* the second leg raised after the first one was placed
C3_Witness ==
    /\ mode = "volume"
    /\ \E i \in DOMAIN log :
        /\ i > 1
        /\ log[i] = Raise("place_order")
        /\ log[i - 1].ev = "open_order"
        /\ \E j \in DOMAIN log : j > i /\ log[j] = Raise("open_positions")

\* C4: the quantity calculate_position_size returns is a non-negative multiple of
\* step_size, is >= min_qty, and quantity * price >= min_notional * liquidity_multiplier
C4_SizedQuantityIsLegal ==
    sz.phase = "sized" =>
        /\ sz.result >= 0
        /\ sz.result % sz.symbol_info.step_size = 0
        /\ sz.result >= sz.symbol_info.min_qty
        /\ sz.result * sz.price * LmScale
               >= sz.symbol_info.min_notional * sz.calc.liquidity_multiplier * QtyScale

\* C5: a close_positions call that failed raised to its caller exactly when it was
\* not silent
C5_CloseRaisesUnlessSilent ==
    (close_result.called /\ close_result.failed)
        => (close_result.raised <=> ~close_result.silent)

\* C6: on every poll of monitor_positions where the position an account opened is
\* reported with |unrealized_pnl| / initial_margin * 100 >= max_position_deviation_percent,
\* initial_margin = quantity * entry_price / leverage, monitoring stops at that poll
C6_DeviationStopsMonitoring ==
    [][ (mode = "dual" /\ pc = "monitor" /\ obs' # obs) =>
            \A a \in Accounts :
                LET s == info[a].side
                    m == info[a].quantity * info[a].entry_price
                IN  (/\ pos[a][s] # 0
                     /\ m > 0
                     /\ Abs(obs'.rp[a][s]) * 100 * leverage * QtyScale
                            >= max_position_deviation_percent * m)
                    => (pc' = "close" /\ obs'.stop # "continue") ]_vars

\* initial_margin = 100 and unrealized_pnl = -25 on the second account, nothing on
\* the first: 25% against a limit of 20%
C6_Witness ==
    /\ mode = "dual"
    /\ pc = "close"
    /\ obs.stop = "deviation2"
    /\ margin[2] = [n |-> 100, d |-> 1]
    /\ obs.rp[2][info[2].side] = -25
    /\ obs.rp[1][info[1].side] = 0

\* C7: the hold time of monitor_positions is drawn from
\* [min_hold_time_sec, max_hold_time_sec], no poll that sampled an elapsed time of
\* max_hold_time_sec or more goes back to sleep, and monitoring always ends
C7_HoldTimeBound ==
    /\ [](mode = "dual" /\ pc = "monitor" =>
            /\ hold_time \in min_hold_time_sec..max_hold_time_sec
            /\ (obs.stop = "continue" => obs.at < max_hold_time_sec))
    /\ ((mode = "dual" /\ pc = "monitor") ~> (pc \in {"close", "done"}))

\* the time box alone ended the monitoring
C7_Witness ==
    /\ mode = "dual"
    /\ pc = "close"
    /\ obs.stop = "time"
    /\ obs.at >= hold_time
    /\ hold_time = max_hold_time_sec

\* C8: open_opposite_positions sizes once against min(balance1, balance2) with
\* single_position=True, and the opening orders of both accounts carry that quantity
C8_SizedAgainstMinBalance ==
    mode = "dual" =>
        /\ pc = "leg1" =>
               quantity = calculate_position_size(Calculator, SymbolInfo, mid_price,
                              IF balance[1] <= balance[2] THEN balance[1] ELSE balance[2],
                              leverage, TRUE)
        /\ pc \in {"leg1", "leg2", "monitor", "close"} =>
               \A i \in OpenOrders(log) : log[i].qty = quantity

\* balances 500 and 300: both orders carry the quantity sized against 300
C8_Witness ==
    /\ mode = "dual"
    /\ pc = "monitor"
    /\ balance_before = <<500, 300>>
    /\ {log[i].acct : i \in OpenOrders(log)} = {1, 2}
    /\ \A i \in OpenOrders(log) :
           log[i].qty = calculate_position_size(Calculator, SymbolInfo, mid_price,
                                                300, leverage, TRUE)

C10_InterruptClosesBeforeExit ==
    cause \in {"interrupt", "cancelled"} =>
        /\ report = "final_stats"
        /\ \E i \in Raises(log, Deliveries), j \in DOMAIN log :
               i < j /\ log[j].ev = "close_call"

\* C11: in dual mode total_pnl and cycles_completed start at 0 and move only in
\* a settle step, which adds 1 to cycles_completed and adds to total_pnl the two
\* balance deltas (balance after - balance before) of that cycle; the before
\* samples are taken with no opening order placed and are kept until the settle,
\* the after samples are read after close_positions was called on both accounts
\* behind the last opening order
C11_CyclePnlIsSumOfDeltas ==
    /\ [](mode = "dual" /\ cycles_completed = 0 => total_pnl = 0)
    /\ [][ mode = "dual" =>
            /\ (cycles_completed' # cycles_completed \/ total_pnl' # total_pnl) =>
                   /\ pc = "settle"
                   /\ cycles_completed' = cycles_completed + 1
                   /\ total_pnl' = total_pnl + (balance[1] - balance_before[1])
                                             + (balance[2] - balance_before[2])
                   /\ \A a \in Accounts : \E j \in DOMAIN log :
                          /\ log[j] = CloseCall(a, TRUE)
                          /\ \A i \in OpenOrders(log) : i < j
            /\ (pc = "cycle" /\ pc' = "open_prepare") =>
                   (balance_before' = balance /\ OpenOrders(log') = {})
            /\ (pc \in {"open_prepare", "leg1", "leg2", "monitor", "close"} /\ pc' # "done")
                   => balance_before' = balance_before ]_vars

\* two settled cycles, both accounts with a realised result
C11_Witness ==
    /\ mode = "dual"
    /\ cycles_completed = 2
    /\ account_pnl[1] # 0
    /\ account_pnl[2] # 0
    /\ total_pnl # 0

\* C12: total_pnl, the per-account PnL and cycles_completed change only in the
\* settle step of a cycle that did not fail, which adds 1 to cycles_completed;
\* cycles_completed never decreases, and a step that ends the run by a setup
\* error, an exception in a cycle or an interrupt leaves all of them unchanged
C12_StatsChangeOnlyAtSettle ==
    [][ /\ (<<total_pnl, cycles_completed, account_pnl>>'
                # <<total_pnl, cycles_completed, account_pnl>>) =>
               /\ pc = "settle"
               /\ pc' \in {"delay", "done"}
               /\ cause' \in {"none", "cap"}
               /\ cycles_completed' = cycles_completed + 1
        /\ cycles_completed' >= cycles_completed
        /\ (cause = "none" /\ cause' \in {"setup_error", "exception", "interrupt", "cancelled"}) =>
               /\ total_pnl' = total_pnl
               /\ cycles_completed' = cycles_completed
               /\ account_pnl' = account_pnl ]_vars

\* the second cycle failed with positions opened; the result of the first stays
C12_Witness ==
    /\ cause = "exception"
    /\ cycles_completed = 1
    /\ total_pnl # 0
    /\ OpenOrders(log) # {}

\* C13: in open_opposite_positions, an opening order that raises on either
\* account is followed by a close_positions call on account 1 and on account 2,
\* and after both the opening error is re-raised to the caller
C13_DualOpenFailureClosesBoth ==
    mode = "dual" =>
        \A k \in DOMAIN log :
            log[k] = Raise("place_order") =>
                \E j1 \in DOMAIN log, j2 \in DOMAIN log, i \in DOMAIN log :
                    /\ k < j1 /\ j1 < i
                    /\ k < j2 /\ j2 < i
                    /\ log[j1] = CloseCall(1, TRUE)
                    /\ log[j2] = CloseCall(2, TRUE)
                    /\ log[i] = Raise("open_positions")

\* the order of account 2 raised after the order of account 1 was placed, and
\* the position of account 1 was closed again
C13_Witness ==
    /\ mode = "dual"
    /\ \E k \in DOMAIN log :
        /\ k > 1
        /\ log[k] = Raise("place_order")
        /\ log[k - 1].ev = "open_order"
        /\ log[k - 1].acct = 1
        /\ \E j \in DOMAIN log : j > k /\ log[j].ev = "close_order" /\ log[j].acct = 1
        /\ \E i \in DOMAIN log : i > k /\ log[i] = Raise("open_positions")

\* C14: the two setup tasks of setup_both_accounts run interleaved; whenever the
\* await of setup_both_accounts completes, it returns only if the setup of both
\* accounts completed, and if the setup of either account failed it raises to
\* start_dual_trading
C14_SetupFailureSurfaces ==
    [][ (mode = "dual" /\ pc = "setup" /\ pc' # "setup") =>
            /\ (pc' = "cycle") => (\A a \in Accounts : setup.task[a] = "done")
            /\ (\E a \in Accounts : setup.task[a] = "failed") =>
                   (pc' = "done" /\ cause' = "setup_error" /\ report' = "raised") ]_vars

\* the setup of account 1 completed, the one of account 2 failed
C14_Witness ==
    /\ mode = "dual"
    /\ pc = "done"
    /\ cause = "setup_error"
    /\ setup.task[1] = "done"
    /\ setup.task[2] = "failed"

\* C15: a run that halted on a setup error, or on a failed sizing prerequisite
\* of the open operation, has called close_positions silently on every account
\* of the engine after the error
C15_SetupErrorClosesBeforeHalt ==
    /\ (pc = "done" /\ cause = "setup_error") =>
           \A a \in Used : \E j \in DOMAIN log : log[j] = CloseCall(a, TRUE)
    /\ \A i \in Raises(log, {"open_prepare", "get_symbol_info"}) :
           \A a \in Used : \E j \in DOMAIN log : j > i /\ log[j] = CloseCall(a, TRUE)

\* C16: in the exchange calls of setup_trading_environment on an account, the
\* enable call set_hedge_mode is made only when hedge mode is requested and the
\* query just before it, in the same run, returned the flag off; once an enable
\* call succeeded no later run makes another; without hedge mode requested the
\* only call is set_leverage; every run starts with the query when hedge mode is
\* requested; set_leverage is the last call of its run, and a setup that
\* returned has made it
C16_HedgeModeEnabledOnce ==
    \A a \in Accounts :
        LET c == setup.calls[a]
        IN  /\ \A i \in DOMAIN c :
                   c[i].call = "set_hedge_mode" =>
                       /\ setup.hedge_mode
                       /\ i > 1
                       /\ c[i - 1].call = "check_hedge_mode"
                       /\ c[i - 1].run = c[i].run
                       /\ c[i - 1].ok
                       /\ ~c[i - 1].dual_side
            /\ \A i \in DOMAIN c, j \in DOMAIN c :
                   (i < j /\ c[i].call = "set_hedge_mode" /\ c[i].ok)
                       => c[j].call # "set_hedge_mode"
            /\ ~setup.hedge_mode => \A i \in DOMAIN c : c[i].call = "set_leverage"
            /\ \A i \in DOMAIN c :
                   (setup.hedge_mode /\ (i = 1 \/ c[i - 1].run # c[i].run))
                       => c[i].call = "check_hedge_mode"
            /\ \A i \in DOMAIN c, j \in DOMAIN c :
                   (i < j /\ c[i].call = "set_leverage") => c[j].run > c[i].run
            /\ setup.task[a] = "done" =>
                   /\ c # <<>>
                   /\ c[Len(c)].call = "set_leverage"
                   /\ c[Len(c)].ok
                   /\ c[Len(c)].run = setup.runs[a]

\* setup ran twice with hedge mode requested on an account whose flag was off:
\* query, enable, set_leverage, then query (flag on) and set_leverage
C16_Witness ==
    \E a \in Accounts :
        LET c == setup.calls[a]
        IN  /\ setup.hedge_mode
            /\ setup.runs[a] = 2
            /\ setup.task[a] = "done"
            /\ Len(c) = 5
            /\ c[2].call = "set_hedge_mode" /\ c[2].ok
            /\ c[3].call = "set_leverage"
            /\ c[4].call = "check_hedge_mode" /\ c[4].dual_side
            /\ c[5].call = "set_leverage"

\* C17: in both open operations, the exception that leaves the operation after
\* an opening order raised is the opening error: the next raise behind the
\* failed order is the re-raise of the open operation, whatever the cleanup
\* close in between did
C17_OpenErrorNotMasked ==
    \A k \in DOMAIN log :
        log[k] = Raise("place_order") =>
            \E i \in DOMAIN log :
                /\ i > k
                /\ log[i] = Raise("open_positions")
                /\ \A j \in (k + 1)..(i - 1) : log[j].ev # "raise"

\* dual: the order of account 2 raised with the position of account 1 open, and
\* the cleanup close of account 1 failed before it placed its closing order
C17_Witness ==
    /\ mode = "dual"
    /\ \E k \in DOMAIN log :
        /\ k > 1
        /\ k + 3 <= Len(log)
        /\ log[k - 1].ev = "open_order"
        /\ log[k - 1].acct = 1
        /\ log[k] = Raise("place_order")
        /\ log[k + 1] = CloseCall(1, TRUE)
        /\ log[k + 2] = CloseCall(2, TRUE)
        /\ log[k + 3] = Raise("open_positions")

\* C18: a close_all_positions call in which the close of either account failed
\* has itself failed: it raised to its caller instead of reporting that all
\* positions were closed
C18_CloseAllFailsFast ==
    (mode = "dual" /\ close_result.called /\ close_result.failed) => close_result.raised

\* C19: the report a run ends with after the loss cap was reached is not the
\* report it ends with after an exception inside a cycle
C19_CapStopDistinctFromException ==
    (pc = "done" /\ cause \in {"cap", "exception"}) =>
        (report = "stopped" <=> cause = "cap")

\* C20: calculate_position_size returns the multiple of step_size nearest to
\* max(min_required, raw_qty), raw_qty = balance * balance_percentage / 100 / legs
\* * leverage / price, min_required = max(min_qty, min_notional *
\* liquidity_multiplier / price); for price 100, balance 1000, 50 percent,
\* leverage 10, two legs, min_notional 5, multiplier 1.2, min_qty and step_size
\* 0.001 it returns 25.000
C20_SizeIsRoundedMaxOfFloorAndBudget ==
    sz.phase = "sized" =>
        LET legs == IF sz.single_position THEN 1 ELSE 2
            raw_qty == Rat(sz.available_balance * sz.calc.balance_percentage
                               * sz.leverage * QtyScale,
                           100 * legs * sz.price)
            floor_qty == RatMax(Rat(sz.symbol_info.min_qty, 1),
                                Rat(sz.symbol_info.min_notional
                                        * sz.calc.liquidity_multiplier * QtyScale,
                                    LmScale * sz.price))
            q == RatMax(floor_qty, raw_qty)
            step == sz.symbol_info.step_size
        IN  /\ sz.result % step = 0
            /\ 2 * Abs(sz.result * q.d - q.n) <= step * q.d
            /\ (/\ sz.price = 100 /\ sz.available_balance = 1000 /\ sz.leverage = 10
                /\ ~sz.single_position
                /\ sz.calc = [liquidity_multiplier |-> 12, balance_percentage |-> 50]
                /\ sz.symbol_info.min_notional = 5
                /\ sz.symbol_info.min_qty = 1 /\ step = 1)
                   => sz.result = 25 * QtyScale

\* the example of the specification has been sized
C20_Witness ==
    /\ sz.phase = "sized"
    /\ sz.price = 100 /\ sz.available_balance = 1000 /\ sz.leverage = 10
    /\ ~sz.single_position
    /\ sz.calc = [liquidity_multiplier |-> 12, balance_percentage |-> 50]
    /\ sz.symbol_info = [tick_size |-> 1, step_size |-> 1, min_qty |-> 1, min_notional |-> 5]
    /\ sz.result = 25 * QtyScale

\* C21 (as stated): for the same rules, price, balance and leverage, the size
\* with two legs is half of the size with one leg, up to one step_size
C21_TwoLegsHalfOfOneLeg ==
    (sz.phase = "sized" /\ ~sz.single_position) =>
        LET one_leg == calculate_position_size(sz.calc, sz.symbol_info, sz.price,
                           sz.available_balance, sz.leverage, TRUE)
        IN  Abs(2 * sz.result - one_leg) <= 2 * sz.symbol_info.step_size

\* C21 (amended): whenever the two-leg budget raw_qty is at least min_required,
\* the size with two legs is half of the size with one leg, up to one step_size
C21_TwoLegsHalfAboveFloor ==
    (sz.phase = "sized" /\ ~sz.single_position) =>
        LET one_leg == calculate_position_size(sz.calc, sz.symbol_info, sz.price,
                           sz.available_balance, sz.leverage, TRUE)
            raw_qty == Rat(sz.available_balance * sz.calc.balance_percentage
                               * sz.leverage * QtyScale,
                           100 * 2 * sz.price)
            floor_qty == RatMax(Rat(sz.symbol_info.min_qty, 1),
                                Rat(sz.symbol_info.min_notional
                                        * sz.calc.liquidity_multiplier * QtyScale,
                                    LmScale * sz.price))
        IN  RatLeq(floor_qty, raw_qty) =>
                Abs(2 * sz.result - one_leg) <= 2 * sz.symbol_info.step_size

\* a two-leg call above the floor has been sized and a one-leg call on the
\* same inputs gives exactly twice its result
C21_Witness ==
    /\ sz.phase = "sized" /\ ~sz.single_position
    /\ sz.available_balance = 300 /\ sz.price = 100 /\ sz.leverage = 10
    /\ sz.calc.balance_percentage = 50
    /\ 2 * sz.result = 15 * QtyScale
    /\ calculate_position_size(sz.calc, sz.symbol_info, sz.price,
           sz.available_balance, sz.leverage, TRUE) = 2 * sz.result

\* C22: the step rounding is idempotent: applied to the quantity the sizer
\* returned, or to any multiple of step_size, it returns that quantity unchanged
C22_RoundingIdempotent ==
    sz.phase = "sized" =>
        LET step == sz.symbol_info.step_size
        IN  /\ round_to_step(Rat(sz.result, 1), step) = sz.result
            /\ \A m \in {0, step, sz.symbol_info.min_qty * step, sz.result + step} :
                   round_to_step(Rat(m, 1), step) = m

\* a quantity that rounding had to move (the unrounded size is not a multiple
\* of a step of 10) has been returned and re-rounding leaves it alone
C22_Witness ==
    /\ sz.phase = "sized"
    /\ sz.symbol_info.step_size = 10
    /\ sz.price = 99 /\ sz.available_balance = 300 /\ sz.leverage = 1
    /\ sz.calc.balance_percentage = 50 /\ sz.single_position
    /\ sz.result = 1520
    /\ round_to_step(Rat(sz.result, 1), 10) = sz.result

\* a pass of the monitor loop of the dual engine that read both accounts
DualPollStep ==
    /\ mode = "dual" /\ pc = "monitor"
    /\ obs' # obs /\ obs'.stop # "none"

Flat(a) == \A s \in Sides : pos[a][s] = 0

\* C23: a poll of monitor_positions at which either account has no non-zero
\* position stops monitoring at that poll for that reason, whatever the
\* deviation, the combined PnL and the hold time are, and places no order
\* itself; the step the cycle takes next calls close_positions on both accounts
\* (unless the task is cancelled at that point)
C23_VanishStopsFirstThenClosesBoth ==
    [][ /\ (DualPollStep /\ (Flat(1) \/ Flat(2))) =>
               /\ obs'.stop = "vanish"
               /\ pc' = "close"
               /\ log' = log /\ pos' = pos
        /\ (mode = "dual" /\ pc = "close" /\ obs.stop = "vanish"
                /\ pc' # "close" /\ cause' # "cancelled") =>
               \A a \in Accounts :
                   \E i \in DOMAIN log' :
                       /\ i > Len(log)
                       /\ log'[i].ev = "close_call" /\ log'[i].acct = a
      ]_vars

\* monitoring stopped because one account was flat while the other account's
\* position was past the deviation limit and the hold time had not run out
C23_Witness ==
    /\ mode = "dual" /\ pc = "close" /\ obs.stop = "vanish"
    /\ \E a \in Accounts, s \in Sides :
        /\ Flat(a)
        /\ pos[3 - a][s] # 0
        /\ obs.rp[3 - a][s] = -25
        /\ margin[3 - a] = Rat(100, 1)
    /\ elapsed < hold_time

\* unrealized PnL a poll reported, summed over the non-zero positions of both accounts
CombinedPnl(p, rp) ==
    LET row(a, s) == IF p[a][s] # 0 THEN rp[a][s] ELSE 0
    IN  row(1, "LONG") + row(1, "SHORT") + row(2, "LONG") + row(2, "SHORT")

\* C24: a poll of monitor_positions whose combined unrealized PnL over the
\* active positions of both accounts is strictly positive stops monitoring at
\* that poll; a poll stops for take-profit only with a strictly positive
\* combined PnL, and a poll with a combined PnL of zero or below stops only if
\* an account is flat, a position is past the deviation limit or the hold time
\* has run out, and otherwise goes on monitoring
C24_PositiveCombinedPnlStops ==
    [][ DualPollStep =>
          LET combined == CombinedPnl(pos, obs'.rp)
              past_limit == \E a \in Accounts, s \in Sides :
                                /\ pos[a][s] # 0
                                /\ info[a].side = s
                                /\ margin[a].n # 0
                                /\ Abs(obs'.rp[a][s]) * 100 * margin[a].d
                                       >= max_position_deviation_percent * Abs(margin[a].n)
          IN  /\ combined > 0 => (pc' = "close" /\ obs'.stop # "continue")
              /\ obs'.stop = "profit" => combined > 0
              /\ (combined <= 0 /\ ~Flat(1) /\ ~Flat(2) /\ ~past_limit
                      /\ elapsed < hold_time) =>
                     (obs'.stop = "continue" /\ pc' = "monitor")
      ]_vars

\* monitoring took profit on a combined PnL of 5 after an earlier poll had gone on
C24_Witness ==
    /\ mode = "dual" /\ pc = "close" /\ obs.stop = "profit"
    /\ CombinedPnl(pos, obs.rp) = 5
    /\ obs.at > 0

\* C25: while the dual engine monitors or is about to close, the margin of each
\* account is quantity * entry_price / leverage of the leg opened on that
\* account, and no pass of the monitor loop and no change of the positions or
\* of the reported PnL during monitoring changes it
C25_InitialMarginFixed ==
    [][ /\ (mode' = "dual" /\ pc' \in {"monitor", "close"}) =>
               \A a \in Accounts :
                   /\ info'[a].quantity = quantity'
                   /\ info'[a].side \in Sides
                   /\ margin'[a] = Rat(info'[a].quantity * info'[a].entry_price,
                                       leverage * QtyScale)
        /\ (mode = "dual" /\ pc = "monitor" /\ pc' \in {"monitor", "close"}) =>
               (margin' = margin /\ info' = info)
      ]_vars

\* a poll reported a loss of 25 on a leg whose margin is 150 and monitoring
\* went on with that margin
C25_Witness ==
    /\ mode = "dual" /\ pc = "monitor" /\ obs.stop = "continue"
    /\ elapsed > 0
    /\ \E a \in Accounts :
        /\ obs.rp[a][info[a].side] = -25
        /\ info[a].entry_price = mid_price
        /\ margin[a] = Rat(150, 1)

\* C26: in the dual engine an opening order on account 2 is in the log only
\* after an opening order on account 1 that returned, each account gets at most
\* one opening order per cycle, and when the order on account 1 fails no
\* opening order is submitted on account 2
C26_AccountOneOrdersFirst ==
    mode = "dual" =>
        /\ \A i \in OpenOrders(log) :
               log[i].acct = 2 =>
                   \E k \in OpenOrders(log) :
                       /\ k < i /\ log[k].acct = 1
                       /\ \A j \in DOMAIN log : (k < j /\ j < i) => log[j].ev # "raise"
        /\ \A i, j \in OpenOrders(log) : log[i].acct = log[j].acct => i = j
        /\ pc = "leg2" => \E k \in OpenOrders(log) : log[k].acct = 1

\* the order on account 1 failed: the cycle ended with no opening order on
\* either account
C26_Witness ==
    /\ mode = "dual" /\ pc = "done"
    /\ Len(log) > 0 /\ log[1] = Raise("place_order")
    /\ OpenOrders(log) = {}

C28_OneLongOneShortAcrossAccounts ==
    /\ (mode = "dual" /\ pc \in {"monitor", "close"}) =>
           /\ {info[1].side, info[2].side} = {"LONG", "SHORT"}
           /\ info[1].quantity = info[2].quantity
           /\ Len(log) = 2
           /\ OpenOrders(log) = {1, 2}
           /\ \A a \in Accounts :
                  /\ log[a].acct = a
                  /\ log[a].pside = info[a].side
                  /\ log[a].side = (IF info[a].side = "LONG" THEN "BUY" ELSE "SELL")
                  /\ log[a].qty = info[a].quantity
                  /\ info[a].quantity > 0
    /\ (mode = "dual" /\ pc = "open_prepare") =>
           /\ ENABLED (open_opposite_positions_prepare /\ pc' = "leg1" /\ first_long')
           /\ ENABLED (open_opposite_positions_prepare /\ pc' = "leg1" /\ ~first_long')
    /\ (mode = "dual" /\ pc = "leg2") =>
           info[1].side = (IF first_long THEN "LONG" ELSE "SHORT")

\* the pair has been opened with LONG on account 2: account 2 is long and
\* account 1 short by the same amount
C28_Witness ==
    /\ mode = "dual" /\ pc = "monitor"
    /\ info[2].side = "LONG" /\ info[1].side = "SHORT"
    /\ pos[2]["LONG"] > 0 /\ pos[1]["SHORT"] = -pos[2]["LONG"]
    /\ pos[2]["SHORT"] = 0 /\ pos[1]["LONG"] = 0

\* C29: no opening order is placed in a cycle whose sizing balance is zero: the
\* balance of the account in the single-account engine, the smaller of the two
\* balances in the dual engine
C29_NoOrderOnZeroBalance ==
    (pc \in {"leg2", "monitor", "close", "settle"} /\ OpenOrders(log) # {}) =>
        IF mode = "volume"
        THEN balance_before[1] > 0
        ELSE balance_before[1] > 0 /\ balance_before[2] > 0

\* C30: a call of close_positions places closing orders only for positions
\* whose amount is not zero, at most one for each, on the position's own side,
\* SELL when the amount is positive and BUY when it is negative, for the
\* absolute amount; when no order is refused every non-zero position gets its
\* order, and when all amounts are zero no order is placed
C30_CloseOrdersMatchPositions ==
    [][ \A a \in Accounts :
          (/\ Len(log') > Len(log)
           /\ log'[Len(log) + 1].ev = "close_call"
           /\ log'[Len(log) + 1].acct = a) =>
              LET placed == {i \in DOMAIN log' : i > Len(log) + 1}
              IN  /\ \A i \in placed :
                         /\ log'[i].ev = "close_order"
                         /\ log'[i].acct = a
                         /\ log'[i].pside \in Sides
                         /\ pos[a][log'[i].pside] # 0
                         /\ log'[i].qty = Abs(pos[a][log'[i].pside])
                         /\ log'[i].side =
                                (IF pos[a][log'[i].pside] > 0 THEN "SELL" ELSE "BUY")
                  /\ \A i, j \in placed : log'[i].pside = log'[j].pside => i = j
                  /\ ~close_result'.failed =>
                         \A s \in Sides :
                             pos[a][s] # 0 => \E i \in placed : log'[i].pside = s
                  /\ (\A s \in Sides : pos[a][s] = 0) => placed = {}
      ]_vars

\* a call closed a long of 60 and a short of 60 with one SELL and one BUY, and
\* a second call on the then flat account placed no order
C30_Witness ==
    /\ pc = "off" /\ Len(log) = 4
    /\ log[1] = CloseCall(1, FALSE)
    /\ log[2] = [ev |-> "close_order", acct |-> 1, side |-> "SELL", pside |-> "LONG",
                 qty |-> 60, silent |-> FALSE]
    /\ log[3] = [ev |-> "close_order", acct |-> 1, side |-> "BUY", pside |-> "SHORT",
                 qty |-> 60, silent |-> FALSE]
    /\ log[4] = CloseCall(1, FALSE)
    /\ pos[1] = NoPositions
    /\ ~close_result.failed

VolumePollStep ==
    /\ mode = "volume" /\ pc = "monitor"
    /\ obs' # obs /\ obs'.stop # "none"

\* C32: in the single-account engine the close time is drawn from
\* [min_close_time_sec, max_close_time_sec]; a poll sums the unrealized PnL of
\* the account's non-zero positions and ends monitoring exactly when that sum
\* is strictly positive or the elapsed time has reached the close time;
\* monitoring always ends, and once it has ended normally close_positions is
\* called (unless the task is cancelled first)
C32_VolumeMonitoringEnds ==
    /\ []((mode = "volume" /\ pc = "monitor") =>
             hold_time \in min_close_time_sec..max_close_time_sec)
    /\ [][ VolumePollStep =>
             LET current_pnl ==
                     (IF pos[1]["LONG"] # 0 THEN obs'.rp[1]["LONG"] ELSE 0) +
                     (IF pos[1]["SHORT"] # 0 THEN obs'.rp[1]["SHORT"] ELSE 0)
             IN  IF current_pnl > 0
                 THEN obs'.stop = "profit" /\ pc' = "close"
                 ELSE IF elapsed >= hold_time
                 THEN obs'.stop = "time" /\ pc' = "close"
                 ELSE obs'.stop = "continue" /\ pc' = "monitor"
         ]_vars
    /\ ((mode = "volume" /\ pc = "monitor") ~> (pc \in {"close", "done"}))
    /\ ((mode = "volume" /\ pc = "close") ~>
            (close_result.called \/ cause = "cancelled"))

\* the close time of 3 ended the monitoring after polls that saw no profit
C32_Witness ==
    /\ mode = "volume" /\ pc = "close"
    /\ obs.stop = "time"
    /\ hold_time = max_close_time_sec
    /\ obs.at >= hold_time
    /\ obs.rp[1]["LONG"] + obs.rp[1]["SHORT"] <= 0

\* the steps a run may take from one position of the engine to the next
PhaseOrder ==
    [setup |-> {"setup", "cycle", "done"},
     cycle |-> {"open_prepare", "done"},
     open_prepare |-> {"leg1", "done"},
     leg1 |-> {"leg2", "done"},
     leg2 |-> {"monitor", "done"},
     monitor |-> {"monitor", "close", "done"},
     close |-> {"settle", "done"},
     settle |-> {"delay", "done"},
     delay |-> {"cycle", "done"},
     done |-> {"done"}]

\* C33: the setup of a run is entered once for each account of the engine,
\* only steps taken before the loop belong to it, and it has returned before
\* any opening order is placed; after a settled cycle the loop goes to the next
\* opening without a setup; the positions of a cycle follow each other as
\* open, monitor, close, settle; within a cycle no opening order follows a call
\* of close_positions, and the statistics change only in the settle step that
\* follows the close
C33_SetupOnceThenOrderedPhases ==
    [][ /\ pc' \in PhaseOrder[pc]
        /\ setup' # setup => (pc = "setup" /\ cycles_completed = 0)
        /\ pc' = "setup" =>
               \A a \in Accounts : setup'.runs[a] = (IF a \in Used THEN 1 ELSE 0)
        /\ pc' \in {"cycle", "open_prepare", "leg1", "leg2", "monitor", "close",
                    "settle", "delay"} => setup' = SetupOver
        /\ OpenOrders(log') # {} => setup' = SetupOver
        /\ \A i \in OpenOrders(log') :
               \A j \in DOMAIN log' : log'[j].ev \in {"close_call", "close_order"} => i < j
        /\ stats' # stats =>
               /\ pc = "settle" /\ pc' \in {"delay", "done"}
               /\ close_result.called
               /\ \E j \in DOMAIN log : log[j].ev = "close_call"
      ]_vars

\* a second cycle has opened its positions, and no setup ran for it
C33_Witness ==
    /\ cycles_completed = 1 /\ pc = "monitor"
    /\ OpenOrders(log) # {}
    /\ setup = SetupOver

\* C34: get_symbol_info returns None exactly when the symbol is not listed or
\* the filter that carries tick size, step size and minimum quantity, or minimum
\* notional is missing; and an open operation that is answered that way ends
\* the cycle by an exception without sizing and without an opening order,
\* whatever else it draws
C34_NoSymbolInfoNoOrder ==
    \A xi \in ExchangeInfos :
        LET incomplete == \/ ~xi.listed
                          \/ "PRICE_FILTER" \notin xi.filters
                          \/ "LOT_SIZE" \notin xi.filters
                          \/ "MIN_NOTIONAL" \notin xi.filters
            refused == /\ pc' = "done" /\ cause' = "exception"
                       /\ quantity' = 0
                       /\ OpenOrders(log') = {}
        IN  /\ incomplete <=> (get_symbol_info(xi) = None)
            /\ (incomplete /\ pc = "open_prepare") =>
                   \A r \in PrepOutcomes, lf \in BOOLEAN :
                       IF mode = "volume"
                       THEN /\ ENABLED open_hedged_positions_sizing(r, xi, lf)
                            /\ ~ENABLED (open_hedged_positions_sizing(r, xi, lf) /\ ~refused)
                       ELSE /\ ENABLED open_opposite_positions_sizing(r, xi, lf)
                            /\ ~ENABLED (open_opposite_positions_sizing(r, xi, lf) /\ ~refused)
            /\ Raises(log, {"get_symbol_info"}) # {} =>
                   (pc = "done" /\ OpenOrders(log) = {})

\* a cycle ended because get_symbol_info returned None: no order was placed
\* and the handler called close_positions
C34_Witness ==
    /\ pc = "done" /\ cause = "exception"
    /\ Len(log) > 1
    /\ log[1] = Raise("get_symbol_info")
    /\ log[2].ev = "close_call"
    /\ OpenOrders(log) = {}

\* C35: once a cycle has been counted as settled, and up to the first opening
\* order of the next cycle, no account holds a position
C35_SettledCycleLeavesNoPosition ==
    (pc \in {"delay", "cycle", "open_prepare", "leg1"} /\ cycles_completed > 0) =>
        \A a \in Accounts, s \in Sides : pos[a][s] = 0

\* C36: in the dual engine total_pnl is account1_pnl + account2_pnl in every
\* state, and the three change only together, in the settle step, by the
\* balance deltas of the two accounts
C36_TotalIsSumOfAccounts ==
    [][ /\ mode = "dual" => total_pnl = account_pnl[1] + account_pnl[2]
        /\ mode' = "dual" => total_pnl' = account_pnl'[1] + account_pnl'[2]
        /\ (mode = "dual" /\ (total_pnl' # total_pnl \/ account_pnl' # account_pnl)) =>
               /\ pc = "settle"
               /\ cycles_completed' = cycles_completed + 1
               /\ \A a \in Accounts :
                      account_pnl'[a] = account_pnl[a] + (balance[a] - balance_before[a])
      ]_vars

\* after two settled cycles account 1 has lost 100, account 2 has won 50 and
\* the total is -50
C36_Witness ==
    /\ mode = "dual"
    /\ cycles_completed = 2
    /\ account_pnl = <<-100, 50>>
    /\ total_pnl = -50

\* C37: the closing orders of one close_positions call are placed one after
\* the other in the order of the reported rows; when one of them is refused
\* the call places none for the rows after it, whose positions stay open, and
\* the call still returns normally, failed or not, silent or not
C37_FailedCloseAbortsQuietly ==
    [][ \A a \in Accounts :
          (/\ Len(log') > Len(log)
           /\ log'[Len(log) + 1].ev = "close_call"
           /\ log'[Len(log) + 1].acct = a) =>
              LET rows == SelectSeq(SideOrder, LAMBDA s : pos[a][s] # 0)
                  k == Len(log') - Len(log) - 1
              IN  /\ k <= Len(rows)
                  /\ \A i \in 1..k :
                         /\ log'[Len(log) + 1 + i].ev = "close_order"
                         /\ log'[Len(log) + 1 + i].pside = rows[i]
                         /\ pos'[a][rows[i]] = 0
                  /\ \A i \in (k + 1)..Len(rows) : pos'[a][rows[i]] = pos[a][rows[i]]
                  /\ k < Len(rows) => close_result'.failed
                  /\ ~close_result'.raised
      ]_vars

\* a call that was not silent closed the long position, was refused on the
\* short one, which stays open, and returned normally
C37_Witness ==
    /\ pc = "off" /\ Len(log) = 2
    /\ log[1] = CloseCall(1, FALSE)
    /\ log[2].ev = "close_order" /\ log[2].pside = "LONG"
    /\ pos[1]["LONG"] = 0 /\ pos[1]["SHORT"] = -60
    /\ close_result.called /\ close_result.failed /\ ~close_result.raised

\* C38: the cap also stops the run on a profit: whenever total_pnl is at
\* max_loss_usdt or above, the run has ended by the cap test and reported a
\* normal stop, and from then on no cycle starts, no order is placed and the
\* statistics stay as they are
C38_ProfitAtCapStopsRun ==
    /\ [](total_pnl >= max_loss_usdt =>
              (pc = "done" /\ cause = "cap" /\ report = "stopped"))
    /\ [][ total_pnl >= max_loss_usdt =>
              (/\ pc' = "done"
               /\ log' = log
               /\ cycles_completed' = cycles_completed
               /\ total_pnl' = total_pnl) ]_vars

\* a run stopped by the cap with a cumulative profit of max_loss_usdt
C38_Witness ==
    /\ pc = "done"
    /\ cause = "cap"
    /\ total_pnl = max_loss_usdt
    /\ cycles_completed >= 1
    /\ \A a \in Accounts : account_pnl[a] >= 0

\* the account whose deviation a stop reason names, 0 for the other reasons
DeviationAccount(stop) ==
    IF stop = "deviation1" THEN 1 ELSE IF stop = "deviation2" THEN 2 ELSE 0

\* C39: a poll of monitor_positions stops for the deviation of an account only
\* when that account's initial margin is not zero and a non-zero position is
\* reported on the side the account opened with |unrealized_pnl| / margin * 100
\* at the limit or above; with a margin of zero no poll stops for that
\* account's deviation, whatever loss is reported
C39_DeviationNeedsOpenedSideAndMargin ==
    [][ DualPollStep =>
          \A a \in Accounts :
              /\ DeviationAccount(obs'.stop) = a =>
                     LET s == info[a].side
                     IN  /\ margin[a].n # 0
                         /\ pos[a][s] # 0
                         /\ Abs(obs'.rp[a][s]) * 100 * margin[a].d
                                >= max_position_deviation_percent * Abs(margin[a].n)
              /\ margin[a].n = 0 => DeviationAccount(obs'.stop) # a
      ]_vars

\* an account opened at an entry price of 0, so its margin is 0; a poll reported
\* a loss of 25 on its position and monitoring went on
C39_Witness ==
    /\ mode = "dual" /\ pc = "monitor" /\ obs.stop = "continue"
    /\ \E a \in Accounts :
        /\ info[a].entry_price = 0
        /\ margin[a] = Rat(0, 1)
        /\ pos[a][info[a].side] # 0
        /\ obs.rp[a][info[a].side] = -25

====
